---- MODULE Spec2Model ----
(***************************************************************************)
(* hid-feature: model of the `list` and `set` commands of src/main.rs.     *)
(*                                                                         *)
(* One invocation of the tool is one action.  The state records the        *)
(* invocation's arguments and everything observable about its run: the     *)
(* Result it returned (or the panic that ended it), the feature-report     *)
(* fetches and sends it issued to the device and the rows it printed.      *)
(*                                                                         *)
(* Bytes are 0..255, an Option is a sequence of length 0 (None) or 1       *)
(* (Some), a string that the code inspects character by character (a patch *)
(* token) is a sequence of one-character strings.  usize is modelled with  *)
(* UsizeBits bits instead of 64, wide enough to hold every buffer index.   *)
(***************************************************************************)
EXTENDS Integers, Sequences, FiniteSets, TLC

VARIABLES call, result, fetches, sends, rows

vars == <<call, result, fetches, sends, rows>>

----------------------------------------------------------------------------
(* Program constants *)

\* type FeatureReport = [u8; 1024]
Capacity == 1024

\* the [u8; 20] that `set` fetches into
SetFetchLen == 20

\* report_id of a report without Report ID in `list`
NoIdByte == 255

(* Bounds of the model *)

UsizeBits == 16
MaxPatchLen == 3
MaxOffset == 2
MaxTokenLen == 3
MaxReports == 2

UsizeModulus == 2 ^ UsizeBits
UsizeMax == UsizeModulus - 1

----------------------------------------------------------------------------
(* Option<T> *)

None == <<>>
Some(x) == <<x>>
IsSome(o) == Len(o) = 1
Unwrap(o) == o[1]

\* Option::map_or(0, u8::from)
MapOr0(o) == IF IsSome(o) THEN Unwrap(o) ELSE 0

\* sequences over S of length 0..n
SeqUpTo(S, n) == UNION {[1..k -> S] : k \in 0..n}

----------------------------------------------------------------------------
(* u8::from_str_radix(src, 16) *)

HexChars == <<"0", "1", "2", "3", "4", "5", "6", "7", "8", "9",
              "a", "b", "c", "d", "e", "f">>

\* char::to_digit(16); -1 stands for None
ToDigit(c) ==
    IF \E k \in 1..16 : HexChars[k] = c
    THEN (CHOOSE k \in 1..16 : HexChars[k] = c) - 1
    ELSE -1

ParseOk(v) == [ok |-> TRUE, val |-> v, err |-> ""]
ParseErr(e) == [ok |-> FALSE, val |-> 0, err |-> e]

RECURSIVE ParseDigits(_, _)
ParseDigits(digits, acc) ==
    IF digits = <<>> THEN ParseOk(acc)
    ELSE LET d == ToDigit(Head(digits))
         IN  IF d < 0 THEN ParseErr("InvalidDigit")
             ELSE IF acc * 16 + d > 255 THEN ParseErr("PosOverflow")
             ELSE ParseDigits(Tail(digits), acc * 16 + d)

from_str_radix(src) ==
    IF src = <<>> THEN ParseErr("Empty")
    ELSE IF Len(src) = 1 /\ src[1] \in {"+", "-"} THEN ParseErr("InvalidDigit")
    ELSE IF src[1] = "+" THEN ParseDigits(Tail(src), 0)
    ELSE ParseDigits(src, 0)

Wildcard == <<"x", "x">>

----------------------------------------------------------------------------
(* The device *)

\* Content of the device's feature report, byte k of the report payload
DeviceByte(dev, k) ==
    CASE dev = "zero" -> 0
      [] dev = "ff"   -> 255
      [] OTHER        -> (16 + k) % 256

\* Device::get_feature_report_with_size::<[u8; cap]>(rid, size): the report
\* without its leading Report ID slot, in a buffer of cap bytes.
FetchedArray(cap, dev, rid, size) ==
    LET n == IF rid = 0 THEN size - 1 ELSE size
    IN  [k \in 0..(cap - 1) |-> IF k < n THEN DeviceByte(dev, k) ELSE 0]

----------------------------------------------------------------------------
(* Results *)

Ok == [kind |-> "Ok", msg |-> <<>>]
Err(context) == [kind |-> "Err", msg |-> <<context>>]
Panic(what) == [kind |-> "Panic", msg |-> <<what>>]
Abort == [kind |-> "Abort", msg |-> <<"fetch wrote past the buffer">>]

Outcome(res, f, s) == [result |-> res, fetches |-> f, sends |-> s]

----------------------------------------------------------------------------
(* set *)

\* for v in bytes.iter().filter(|v| v != &"xx") { u8::from_str_radix(v, 16)? }
TokensValid(bytes) ==
    \A k \in 1..Len(bytes) : bytes[k] # Wildcard => from_str_radix(bytes[k]).ok

\* reports.iter().find(|r| u8::from(r.report_id().unwrap()) == *id)
\* [found |-> index, 0 for none; panic |-> the closure unwrapped a None]
RECURSIVE FindReport(_, _, _)
FindReport(reports, id, k) ==
    IF k > Len(reports) THEN [found |-> 0, panic |-> FALSE]
    ELSE IF ~IsSome(reports[k].report_id) THEN [found |-> 0, panic |-> TRUE]
    ELSE IF Unwrap(reports[k].report_id) = id THEN [found |-> k, panic |-> FALSE]
    ELSE FindReport(reports, id, k + 1)

\* let report = match filter_id { Some(id) => find ..., None => first }
SelectReport(reports, filter_id) ==
    IF IsSome(filter_id)
    THEN FindReport(reports, Unwrap(filter_id), 1)
    ELSE [found |-> 1, panic |-> FALSE]

\* fetch_size without the Report ID slot of a report that has no ID
FetchSizeNoSlot(report) == report.size

\* fetch_size = match report.report_id() { Some(_) => size, None => size + 1 }
FetchSize(report) ==
    IF IsSome(report.report_id) THEN report.size ELSE report.size + 1

\* rid_off
RidOff(report) == IF IsSome(report.report_id) THEN 0 ELSE 1

\* let idx = offset + rid_off + i, in usize arithmetic
IdxSum(offset, rid_off, i) == offset + rid_off + i

\* the byte a wildcard token at patch index i stores
WildcardByte(r, offset, i) == r[i]

\* values after `values[0] = rid` and the copy of r[0..report_size]
Prepend(r, rid, rid_off, report_size) ==
    [j \in 0..(Capacity - 1) |->
        IF j < rid_off THEN rid
        ELSE IF j < rid_off + report_size THEN r[j - rid_off]
        ELSE 0]

\* for (i, val) in bytes.iter().enumerate() { ... }
RECURSIVE PatchLoop(_, _, _, _, _, _, _)
PatchLoop(values, r, bytes, offset, rid_off, build, i) ==
    IF i >= Len(bytes) THEN [panic |-> "", values |-> values]
    ELSE
      LET val == bytes[i + 1]
          sum == IdxSum(offset, rid_off, i)
          idx == sum % UsizeModulus
      IN  IF sum > UsizeMax /\ build = "debug"
          THEN [panic |-> "attempt to add with overflow", values |-> values]
          ELSE IF val # Wildcard
          THEN IF idx >= Capacity
               THEN [panic |-> "index out of bounds", values |-> values]
               ELSE PatchLoop([values EXCEPT ![idx] = from_str_radix(val).val],
                              r, bytes, offset, rid_off, build, i + 1)
          ELSE IF i >= SetFetchLen \/ idx >= Capacity
               THEN [panic |-> "index out of bounds", values |-> values]
               ELSE PatchLoop([values EXCEPT ![idx] = WildcardByte(r, offset, i)],
                              r, bytes, offset, rid_off, build, i + 1)

\* fn set(path, filter_id, bytes, offset) from the fetch on; nth is the
\* position of `report` in the descriptor, kept in the call log
SetReport(report, nth, a) ==
    LET rid == MapOr0(report.report_id)
        report_size == report.size
        fetch_size == FetchSize(report)
        fetch == <<[rid |-> rid, size |-> fetch_size, nth |-> nth]>>
        rid_off == RidOff(report)
        r == FetchedArray(SetFetchLen, a.dev, rid, fetch_size)
        merged == PatchLoop(Prepend(r, rid, rid_off, report_size), r, a.bytes,
                            a.offset, rid_off, a.build, 0)
    IN  IF fetch_size > SetFetchLen /\ a.ub = "abort"
        THEN Outcome(Abort, fetch, <<>>)
        ELSE IF report_size > SetFetchLen
        THEN Outcome(Panic("range end index out of range"), fetch, <<>>)
        ELSE IF merged.panic # ""
        THEN Outcome(Panic(merged.panic), fetch, <<>>)
        ELSE Outcome(Ok, fetch, <<[buf |-> merged.values, size |-> fetch_size]>>)

\* fn set(path, filter_id, bytes, offset)
SetRun(a) ==
    LET sel == SelectReport(a.reports, a.filter_id)
    IN  IF a.reports = <<>>
        THEN Outcome(Err("This device does not have any Feature Reports"), <<>>, <<>>)
        ELSE IF ~TokensValid(a.bytes)
        THEN Outcome(Err("Invalid value, must be 'xx' or 1-byte hex"), <<>>, <<>>)
        ELSE IF sel.panic
        THEN Outcome(Panic("called Option::unwrap() on a None value"), <<>>, <<>>)
        ELSE IF sel.found = 0
        THEN Outcome(Err("Unable to find report {id}"), <<>>, <<>>)
        ELSE SetReport(a.reports[sel.found], sel.found, a)

----------------------------------------------------------------------------
(* list *)

\* format!("{b:02x}")
Format02x(b) == HexChars[(b \div 16) + 1] \o HexChars[(b % 16) + 1]

\* print_bytes: the bytes as two-digit hex, joined by " "
RECURSIVE print_bytes(_)
print_bytes(bytes) ==
    IF bytes = <<>> THEN ""
    ELSE IF Len(bytes) = 1 THEN Format02x(bytes[1])
    ELSE Format02x(bytes[1]) \o " " \o print_bytes(Tail(bytes))

\* report_id as i8
AsI8(b) == IF b >= 128 THEN b - 256 ELSE b

\* let report_id: u8 = match report.report_id() { None => 0xff, Some(id) => id }
ListReportId(report) ==
    IF IsSome(report.report_id) THEN Unwrap(report.report_id) ELSE NoIdByte

\* if let Some(filter_id) = filter_id { if report_id == *filter_id { continue } }
ListSkips(report, filter_id) ==
    IsSome(filter_id) /\ ListReportId(report) = Unwrap(filter_id)

\* fetch_size of `list`
ListFetchSize(report) ==
    IF IsSome(report.report_id) THEN report.size ELSE report.size + 1

\* Field::Variable and Field::Array are printed, every other kind is skipped
Printable(field) == field.kind \in {"Variable", "Array"}

\* one println! of the table; nth is the position of the report in the
\* descriptor.  The usage name, the logical range and the decoded value come
\* from the hidreport and hut crates and are not part of the row here.
Row(report, nth, field, values) ==
    LET offset == field.start \div 8
        end == (field.end - 1) \div 8
    IN  [report |-> AsI8(ListReportId(report)),
         nth |-> nth,
         bits |-> field.end - field.start,
         first |-> field.start,
         last |-> field.end - 1,
         count |-> IF field.kind = "Variable" THEN 1 ELSE field.report_count,
         bytes |-> print_bytes([k \in 1..(end - offset + 1) |-> values[offset + k - 1]])]

\* for field in report.fields() { ... }
ReportRows(report, nth, values) ==
    LET printed == SelectSeq(report.fields, Printable)
    IN  [k \in 1..Len(printed) |-> Row(report, nth, printed[k], values)]

\* for report in reports { ... }
RECURSIVE ListLoop(_, _, _, _)
ListLoop(a, k, f, rws) ==
    IF k > Len(a.reports) THEN [result |-> Ok, fetches |-> f, rows |-> rws]
    ELSE
      LET report == a.reports[k]
          rid == MapOr0(report.report_id)
          fetch_size == ListFetchSize(report)
          values == FetchedArray(Capacity, a.dev, rid, fetch_size)
      IN  IF ListSkips(report, a.filter_id)
          THEN ListLoop(a, k + 1, f, rws)
          ELSE ListLoop(a, k + 1,
                        Append(f, [rid |-> rid, size |-> fetch_size, nth |-> k]),
                        rws \o ReportRows(report, k, values))

\* fn list(path, filter_id)
ListRun(a) == ListLoop(a, 1, <<>>, <<>>)

----------------------------------------------------------------------------
(* Invocations *)

Report(id, size) == [report_id |-> id, size |-> size, fields |-> <<>>]

Args(op, reports, filter_id, bytes, offset, dev, build, ub) ==
    [op |-> op, reports |-> reports, filter_id |-> filter_id, bytes |-> bytes,
     offset |-> offset, dev |-> dev, build |-> build, ub |-> ub]

Devices == {"zero", "ramp", "ff"}
Builds == {"debug", "release"}

Tok4a == <<"4", "a">>
Tok6c == <<"6", "c">>

\* patches of wildcards and literals at small offsets
MergeInputs ==
    {Args("set", <<Report(id, size)>>, None, bytes, offset, dev, build, "continue") :
        id \in {None, Some(1)}, size \in {4, 5},
        bytes \in SeqUpTo({Wildcard, Tok4a, Tok6c}, MaxPatchLen),
        offset \in 0..MaxOffset, dev \in Devices, build \in Builds}

\* every short token, alone or around valid tokens
TokenChars == {"0", "1", "a", "f", "x", "z", "+", "-"}
ShortTokens == UNION {[1..n -> TokenChars] : n \in 1..MaxTokenLen}
TokenInputs ==
    {Args("set", <<Report(None, 4)>>, None, pre \o <<t>> \o post, 0, "ramp", "release", "continue") :
        pre \in {<<>>, <<Tok4a>>}, t \in ShortTokens, post \in {<<>>, <<Tok6c>>}}

\* descriptors of several reports, told apart by their sizes
IdChoices == {None, Some(1), Some(2), Some(255)}
SizeOfChoice(id) == IF IsSome(id) THEN 3 + (Unwrap(id) % 4) ELSE 3
Descriptors == SeqUpTo({Report(id, SizeOfChoice(id)) : id \in IdChoices}, MaxReports)
Filters == {None, Some(1), Some(2), Some(3), Some(255)}
SelectInputs ==
    {Args("set", reports, filter_id, bytes, 0, "ramp", "release", "continue") :
        reports \in Descriptors, filter_id \in Filters, bytes \in {<<>>, <<Tok4a>>}}

\* patches at the end of the buffer and at the end of usize
EdgeOffsets == ((Capacity - 3)..Capacity) \cup {UsizeMax - 1, UsizeMax}
BoundsInputs ==
    {Args("set", <<Report(id, 4)>>, None, bytes, offset, "ramp", build, "continue") :
        id \in {None, Some(1)}, bytes \in SeqUpTo({Wildcard, Tok4a}, MaxPatchLen),
        offset \in EdgeOffsets, build \in Builds}

\* reports of every size class; the long patch has a wildcard at index SetFetchLen
ReportSizes == {1, 8, SetFetchLen - 1, SetFetchLen, SetFetchLen + 1, Capacity - 1}
LongPatch == [k \in 1..(SetFetchLen + 1) |-> IF k <= SetFetchLen THEN Tok4a ELSE Wildcard]
SizeInputs ==
    {Args("set", <<Report(id, size)>>, None, bytes, 0, "ramp", "release", ub) :
        id \in {None, Some(1)}, size \in ReportSizes,
        bytes \in {<<>>, <<Wildcard>>, <<Tok4a>>, LongPatch}, ub \in {"abort", "continue"}}

SetInputs == MergeInputs \cup TokenInputs \cup SelectInputs \cup BoundsInputs \cup SizeInputs

\* descriptors for `list`: a Variable field, an Array field and a Constant one
ListFields ==
    <<[kind |-> "Variable", start |-> 0, end |-> 4, report_count |-> 1],
      [kind |-> "Array", start |-> 4, end |-> 20, report_count |-> 2],
      [kind |-> "Constant", start |-> 20, end |-> 24, report_count |-> 1]>>
ListReport(id) == [report_id |-> id, size |-> SizeOfChoice(id), fields |-> ListFields]
ListInputs ==
    {Args("list", reports, filter_id, <<>>, 0, dev, "release", "continue") :
        reports \in SeqUpTo({ListReport(id) : id \in IdChoices}, MaxReports),
        filter_id \in Filters, dev \in Devices}

----------------------------------------------------------------------------
(* The state machine: a process runs one command (hid_feature matches on  *)
(* cli.command once) and exits with its result.                            *)

Init ==
    /\ call = Args("none", <<>>, None, <<>>, 0, "zero", "release", "continue")
    /\ result = Ok
    /\ fetches = <<>>
    /\ sends = <<>>
    /\ rows = <<>>

\* Commands::Set => set(&path, &report_id, &bytes, offset)
Set ==
    \E a \in SetInputs :
        LET out == SetRun(a)
        IN  /\ call.op = "none"
            /\ call' = a
            /\ result' = out.result
            /\ fetches' = out.fetches
            /\ sends' = out.sends
            /\ rows' = <<>>

\* Commands::List => list(&path, &report_id)
List ==
    \E a \in ListInputs :
        LET out == ListRun(a)
        IN  /\ call.op = "none"
            /\ call' = a
            /\ result' = out.result
            /\ fetches' = out.fetches
            /\ sends' = <<>>
            /\ rows' = out.rows

Next == Set \/ List

Spec == Init /\ [][Next]_vars

----------------------------------------------------------------------------
(* What the claims speak of, read off the recorded invocation *)

IsSet == call.op = "set"
IsList == call.op = "list"
Sent == IsSet /\ sends # <<>>
SentBuf == sends[1].buf

\* the report `set` worked on: the one its fetch was issued for
SetTarget == call.reports[fetches[1].nth]

\* id_slot_width of the report `set` worked on
IdSlotWidth == IF IsSome(SetTarget.report_id) THEN 0 ELSE 1

\* the bytes the device holds for the report, i.e. the fetched payload
Fetched(k) == DeviceByte(call.dev, k)

\* the output buffer before any patch token is applied
PrePatch(j) ==
    IF j < IdSlotWidth THEN 0
    ELSE IF j < IdSlotWidth + SetTarget.size THEN Fetched(j - IdSlotWidth)
    ELSE 0

\* the buffer index patch token i is meant for
Target(i) == call.offset + IdSlotWidth + i

PatchIndices == 0..(Len(call.bytes) - 1)
TokenAt(i) == call.bytes[i + 1]

\* 'xx' or exactly two hexadecimal digits
WellFormed(t) ==
    \/ t = Wildcard
    \/ Len(t) = 2 /\ \A k \in 1..2 : \E h \in 1..16 : HexChars[h] = t[k]

\* the byte value of a two-digit literal
LiteralValue(t) ==
    16 * ((CHOOSE h \in 1..16 : HexChars[h] = t[1]) - 1)
       + ((CHOOSE h \in 1..16 : HexChars[h] = t[2]) - 1)

\* positions of the reports whose Report ID is F
WithId(F) == {k \in 1..Len(call.reports) : call.reports[k].report_id = Some(F)}
Least(S) == CHOOSE k \in S : \A m \in S : k <= m

----------------------------------------------------------------------------
\* C1: whenever `set` completes and sends, every wildcard token at patch
\* index i whose target lies in the report leaves the fetched byte in place:
\* sent[offset + id_slot_width + i] = fetched[offset + i].
C1_WildcardPreserves ==
    Sent => \A i \in PatchIndices :
              (TokenAt(i) = Wildcard /\ call.offset + i < SetTarget.size)
                  => SentBuf[Target(i)] = Fetched(call.offset + i)

\* C2: `set --offset=k P` sends exactly the bytes that `set` with k leading
\* 'xx' tokens followed by P sends at offset 0.
C2_OffsetEquivalence ==
    (IsSet /\ call.offset <= MaxOffset) =>
        LET lead == [k \in 1..call.offset |-> Wildcard]
            same == [call EXCEPT !.offset = 0, !.bytes = lead \o call.bytes]
            other == SetRun(same).sends
        IN  /\ Len(sends) = Len(other)
            /\ \A k \in 1..Len(sends) :
                  /\ sends[k].size = other[k].size
                  /\ \A j \in 0..(sends[k].size - 1) : sends[k].buf[j] = other[k].buf[j]

\* C3: whenever `set` completes and sends, every literal token sits at its
\* own index offset + id_slot_width + i of the sent buffer, and every index
\* that no patch token targets keeps its pre-patch content (the ID byte 0,
\* the fetched bytes in order, zero padding).
C3_LiteralsExact ==
    Sent =>
        /\ \A i \in PatchIndices :
              TokenAt(i) # Wildcard =>
                  /\ Target(i) < Capacity
                  /\ SentBuf[Target(i)] = from_str_radix(TokenAt(i)).val
        /\ \A j \in 0..(Capacity - 1) :
              (\A i \in PatchIndices : j # Target(i)) => SentBuf[j] = PrePatch(j)

\* C3 holds of every run in which offset + id_slot_width + i stays within
\* usize: the wrap of that sum is the only way past it.
C3_NoOverflow ==
    (Sent /\ (call.bytes # <<>> => Target(Len(call.bytes) - 1) <= UsizeMax))
        => C3_LiteralsExact

\* C4: a patch spec with a token that is neither 'xx' nor exactly two hex
\* digits makes `set` fail with the token error, before any fetch or send.
C4_TokenValidationGates ==
    (IsSet /\ call.reports # <<>> /\ \E i \in PatchIndices : ~WellFormed(TokenAt(i)))
        => /\ result = Err("Invalid value, must be 'xx' or 1-byte hex")
           /\ fetches = <<>>
           /\ sends = <<>>

\* C5: with filter F, `set` works on the report whose Report ID is F when
\* there is one and otherwise returns an error naming F; with no filter it
\* works on the first report.
C5_Selection ==
    (IsSet /\ call.reports # <<>> /\ TokensValid(call.bytes)) =>
        IF ~IsSome(call.filter_id)
        THEN Len(fetches) = 1 /\ fetches[1].nth = 1
        ELSE LET F == Unwrap(call.filter_id)
             IN  IF WithId(F) # {}
                 THEN Len(fetches) = 1 /\ fetches[1].nth = Least(WithId(F))
                 ELSE /\ result.kind = "Err"
                      /\ fetches = <<>>
                      /\ \E k \in 1..Len(result.msg) :
                            result.msg[k] = "Unable to find report " \o ToString(F)

\* C6: a patch whose last index offset + id_slot_width + (length - 1) lies
\* past the last index of the output buffer makes `set` return an error,
\* without a panic and without a send.
C6_BoundsError ==
    (IsSet /\ fetches # <<>> /\ SetTarget.size <= SetFetchLen /\ call.bytes # <<>>
           /\ Target(Len(call.bytes) - 1) > Capacity - 1)
        => result.kind = "Err" /\ sends = <<>>

\* C7: `list --report-id F` fetches exactly the reports whose Report ID is F,
\* and prints rows for them only; without filter it fetches every report.
C7_ListFilterIn ==
    IsList =>
        LET wanted == IF IsSome(call.filter_id)
                      THEN WithId(Unwrap(call.filter_id))
                      ELSE 1..Len(call.reports)
        IN  /\ {fetches[k].nth : k \in 1..Len(fetches)} = wanted
            /\ {rows[k].nth : k \in 1..Len(rows)} = wanted

\* C8: the Report column of a row is -1 exactly when the row's report has no
\* Report ID, and under a filter F a report without ID is treated like a
\* report whose ID differs from F.
C8_NoIdSentinel ==
    IsList =>
        LET listed == {rows[k].nth : k \in 1..Len(rows)}
            reps == 1..Len(call.reports)
        IN  /\ \A k \in 1..Len(rows) :
                  rows[k].report = -1 <=> ~IsSome(call.reports[rows[k].nth].report_id)
            /\ IsSome(call.filter_id) =>
                  \A m, n \in reps :
                      ( /\ ~IsSome(call.reports[m].report_id)
                        /\ IsSome(call.reports[n].report_id)
                        /\ call.reports[n].report_id # call.filter_id )
                      => (m \in listed <=> n \in listed)

\* C9: every fetch of `list` and `set` asks for logical_size bytes when the
\* report has a Report ID and for logical_size + 1 when it has none, with the
\* report's ID (0 for none) as Report ID argument, and `set` sends with the
\* size it fetched with.
C9_TransferSize ==
    /\ \A k \in 1..Len(fetches) :
          LET report == call.reports[fetches[k].nth]
          IN  IF IsSome(report.report_id)
              THEN fetches[k].size = report.size /\ fetches[k].rid = Unwrap(report.report_id)
              ELSE fetches[k].size = report.size + 1 /\ fetches[k].rid = 0
    /\ \A k \in 1..Len(sends) : Len(fetches) = 1 /\ sends[k].size = fetches[1].size

\* C9: a report of 8 bytes without Report ID is fetched and sent with 9
C9_Witness ==
    /\ Sent
    /\ SetTarget = Report(None, 8)
    /\ fetches[1].size = 9 /\ sends[1].size = 9

\* C10: for every report of 1..Capacity-1 bytes and every patch that stays
\* inside the report, `set` completes with a send that carries all fetched
\* bytes no token targets.
C10_SetSupportsSizes ==
    (IsSet /\ fetches # <<>> /\ SetTarget.size \in 1..(Capacity - 1)
           /\ call.offset + Len(call.bytes) <= SetTarget.size)
        => /\ result.kind = "Ok"
           /\ Len(sends) = 1
           /\ \A j \in 0..(SetTarget.size - 1) :
                 (\A i \in PatchIndices : j # call.offset + i)
                     => SentBuf[j + IdSlotWidth] = Fetched(j)

====
